---- MODULE Spec2Model ----
(***************************************************************************)
(* The two notebooks of Learning-Spark/Python/Chapter10:                   *)
(*   10-6 Decision Trees.py        (nb = "10-6")                           *)
(*   10-7 Hyperparameter Tuning.py (nb = "10-7")                           *)
(* A notebook is a list of cells run top to bottom; pc is the next cell.   *)
(* The calls into the ML framework (StringIndexer, VectorAssembler, the    *)
(* tree regressors, ParamGridBuilder, CrossValidator) are modelled by what *)
(* the call does with the arguments the notebook passes.                   *)
(*                                                                         *)
(* Values: a string category is a natural number (1 < 2 stands for the     *)
(* alphabetical order), a double is a natural number, a prediction is a    *)
(* fraction <<numerator, denominator>>.  A DataFrame is a set of rows, a   *)
(* row a function from column names to values.                             *)
(***************************************************************************)
EXTENDS Integers, Sequences, FiniteSets, TLC

\* ------------------------------------------------------------ bounds
NumFields == 4
NumValues == 2
NumTrainRows == 3
MaxTestRows == 2
MaxImproved == 1
MaxBinsTried == 2
MaxDissent == 1

\* ------------------------------------------------- program constants
DefaultMaxBins == 32
NotebookMaxBins == 40
ForestMaxBins == 40
NumFolds == 3
DefaultParallelism == 1
NotebookParallelism == 4

VARIABLES
  nb,              \* which notebook is run
  pc,              \* the next cell of the notebook
  dtypes,          \* trainDF.dtypes: sequence of <<field, dataType>>
  trainDF, testDF, \* the two sides of airbnbDF.randomSplit
  foldOf,          \* the fold CrossValidator's seeded random column gives each training row
  rmseOf,          \* the RMSE the evaluator returns for one (estimator, grid point, fold)
  categoricalCols, indexOutputCols, stringIndexer,
  numericCols, vecAssembler,
  estimator,       \* dt (10-6) or rf (10-7)
  paramGrid, cv, pipeline,
  cvRun,           \* the CrossValidator.fit in progress
  cvModel, pipelineModel,
  predDF, report, evaluated,
  error,           \* "none" or the kind of the error that aborted the run
  indexerFits,     \* log: every StringIndexer.fit of the run
  evals,           \* log: every fit-and-score evaluation of the run
  cvFits           \* log: the result of every finished CrossValidator.fit

vars == <<nb, pc, dtypes, trainDF, testDF, foldOf, rmseOf, categoricalCols,
          indexOutputCols, stringIndexer, numericCols, vecAssembler, estimator,
          paramGrid, cv, pipeline, cvRun, cvModel, pipelineModel, predDF,
          report, evaluated, error, indexerFits, evals, cvFits>>

None == "None"

\* ------------------------------------------------------------ helpers
Range(s) == {s[k] : k \in 1..Len(s)}

RECURSIVE SumOver(_, _)
SumOver(S, f) ==
  IF S = {} THEN 0
  ELSE LET x == CHOOSE y \in S : TRUE IN f[x] + SumOver(S \ {x}, f)

MapSeq(s, Op(_)) == [k \in 1..Len(s) |-> Op(s[k])]

\* position of v in s, counted from 0 as the framework's indices are
IndexIn(s, v) == (CHOOSE k \in 1..Len(s) : s[k] = v) - 1

\* ------------------------------------------------------- the dataset
AllFields == <<"room", "price", "beds", "city", "baths">>
Fields == SubSeq(AllFields, 1, NumFields)
FieldSet == Range(Fields)
DataTypes == {"string", "double", "int"}
LabelCol == "price"

\* ------------------------------------------------ feature preparation
\* categoricalCols = [field for (field, dataType) in trainDF.dtypes if dataType == "string"]
CategoricalCols(dt) ==
  MapSeq(SelectSeq(dt, LAMBDA p : p[2] = "string"), LAMBDA p : p[1])

\* indexOutputCols = [x + "Index" for x in categoricalCols]
IndexOutputCols(cats) == MapSeq(cats, LAMBDA x : x \o "Index")

\* numericCols = [field for (field, dataType) in trainDF.dtypes
\*                if ((dataType == "double") & (field != "price"))]
NumericCols(dt) ==
  MapSeq(SelectSeq(dt, LAMBDA p : p[2] = "double" /\ p[1] # "price"), LAMBDA p : p[1])

AssemblerInputsNumericFirst(idx, num) == num \o idx
\* assemblerInputs = indexOutputCols + numericCols
AssemblerInputs(idx, num) == idx \o num

HandleInvalidError == "error"
\* StringIndexer(..., handleInvalid="skip")
HandleInvalid == "skip"

\* StringIndexer.fit: per input column the labels seen in df, most frequent
\* first, ties in alphabetical order; a label's index is its position.
Frequency(df, c, v) == Cardinality({r \in df : r[c] = v})

RECURSIVE OrderLabels(_, _, _)
OrderLabels(df, c, vals) ==
  IF vals = {} THEN <<>>
  ELSE LET best == CHOOSE v \in vals : \A w \in vals :
                     \/ Frequency(df, c, v) > Frequency(df, c, w)
                     \/ Frequency(df, c, v) = Frequency(df, c, w) /\ v <= w
       IN <<best>> \o OrderLabels(df, c, vals \ {best})

StringIndexerFit(df, si) ==
  [c \in Range(si.inputCols) |-> OrderLabels(df, c, {r[c] : r \in df})]

Seen(r, si, labels) == \A c \in Range(si.inputCols) : r[c] \in Range(labels[c])

IndexColumns(r, si, labels) ==
  [o \in Range(si.outputCols) |->
     LET c == si.inputCols[IndexIn(si.outputCols, o) + 1]
     IN IF r[c] \in Range(labels[c]) THEN IndexIn(labels[c], r[c]) ELSE Len(labels[c])]

\* StringIndexerModel.transform under the three handleInvalid policies
StringIndexerTransform(df, si, labels) ==
  LET unseen == {r \in df : ~Seen(r, si, labels)}
      kept == IF si.handleInvalid = "skip" THEN df \ unseen ELSE df
  IN [failed |-> si.handleInvalid = "error" /\ unseen # {},
      rows |-> {r @@ IndexColumns(r, si, labels) : r \in kept}]

\* VectorAssembler.transform: the named columns' values, in the given order
VectorAssemblerTransform(df, va) ==
  {r @@ (va.outputCol :> [k \in 1..Len(va.inputCols) |-> r[va.inputCols[k]]]) : r \in df}

\* the raw row a transformed row was made from
Raw(r) == [f \in FieldSet |-> r[f]]

\* ------------------------------------------------------ tree models
MaxBinsOkStrict(est, labels) ==
  \A c \in DOMAIN labels : Len(labels[c]) < est.maxBins
\* "the number of buckets has to be as large as the number of categorical
\* variables": maxBins against the number of labels of every indexed column
MaxBinsOk(est, labels) ==
  \A c \in DOMAIN labels : Len(labels[c]) <= est.maxBins

\* estimator.fit(df) under the parameters pm: the trained model keeps what it
\* was trained on; which splits it made is left open (see Predictions)
FitRegressor(est, pm, df) ==
  [kind |-> est.kind, params |-> pm, trainedOn |-> df]

Labels(df) == {r[LabelCol] : r \in df}

RECURSIVE Gcd(_, _)
Gcd(a, b) == IF b = 0 THEN a ELSE Gcd(b, a % b)
\* the fraction n/d in lowest terms
Fraction(n, d) == <<n \div Gcd(n, d), d \div Gcd(n, d)>>

LeafPredictionSum(S) == Fraction(SumOver(S, [r \in S |-> r[LabelCol]]), 1)
\* a leaf predicts the mean label of the training rows that reached it
LeafPrediction(S) == Fraction(SumOver(S, [r \in S |-> r[LabelCol]]), Cardinality(S))

\* every value some leaf of some tree over df can hold: a leaf is reached by
\* a non-empty subset of the rows
TreePredictions(df) == {LeafPrediction(S) : S \in (SUBSET df) \ {{}}}

\* a forest of t trees of which k answer a and the others b: their mean
ForestMean(a, b, k, t) ==
  Fraction(k * a[1] * b[2] + (t - k) * b[1] * a[2], t * a[2] * b[2])

\* what a trained model may answer for an input.  A member tree of a forest is
\* a tree over a resample of the rows, so its leaves are leaves over the rows.
Predictions(m) ==
  IF m.kind = "tree" THEN TreePredictions(m.trainedOn)
  ELSE {ForestMean(a, b, k, m.params.numTrees) :
          a \in TreePredictions(m.trainedOn),
          b \in TreePredictions(m.trainedOn),
          k \in 0..MaxDissent}

\* ------------------------------------------------------ the grid search
MaxDepthValues == <<2, 4, 6>>
NumTreesValues == <<10, 100>>

\* ParamGridBuilder().addGrid(rf.maxDepth, d).addGrid(rf.numTrees, t).build()
BuildGrid(d, t) ==
  [k \in 1..(Len(d) * Len(t)) |->
     [maxDepth |-> d[((k - 1) \div Len(t)) + 1],
      numTrees |-> t[((k - 1) % Len(t)) + 1]]]

\* CrossValidator's folds: validation = the rows whose random column falls in
\* the fold's band, train = the rows for which it does not
KFoldValidation(df, i) == {r \in df : foldOf[Raw(r)] = i}
KFoldTrainAll(df, i) == df
KFoldTrain(df, i) == df \ KFoldValidation(df, i)

\* the tasks the thread pool of `par` threads is running: the tasks are taken
\* from the queue in order, so these are the first `par` unfinished ones
RunningTasks(n, done, par) ==
  LET pending == (1..n) \ done
  IN {j \in pending : Cardinality({k \in pending : k < j}) < par}

CvCollectInCompletionOrder(metrics, j, pos, m) == [metrics EXCEPT ![pos] = @ + m]
\* metrics[j] += metric / nFolds, for the task j that just finished as the
\* pos-th of its fold
CvCollect(metrics, j, pos, m) == [metrics EXCEPT ![j] = @ + m]

ArgMax(metrics) ==
  CHOOSE j \in 1..Len(metrics) :
    /\ \A k \in 1..Len(metrics) : metrics[k] <= metrics[j]
    /\ \A k \in 1..(j - 1) : metrics[k] < metrics[j]
\* np.argmin(metrics): the first index of the least value
ArgMin(metrics) ==
  CHOOSE j \in 1..Len(metrics) :
    /\ \A k \in 1..Len(metrics) : metrics[j] <= metrics[k]
    /\ \A k \in 1..(j - 1) : metrics[k] > metrics[j]

\* RegressionEvaluator(metricName="rmse").isLargerBetter() is False
BestIndex(metrics, ev) ==
  IF ev.metricName = "rmse" THEN ArgMin(metrics) ELSE ArgMax(metrics)

\* ------------------------------------------------- cells of both notebooks
Prepared(df, labels) ==
  VectorAssemblerTransform(StringIndexerTransform(df, stringIndexer, labels).rows,
                           vecAssembler)

\* 10-6 lines 31-34, 10-7 lines 16-19
DefineIndexer ==
  /\ pc = "indexer"
  /\ categoricalCols' = CategoricalCols(dtypes)
  /\ indexOutputCols' = IndexOutputCols(categoricalCols')
  /\ stringIndexer' = [inputCols |-> categoricalCols', outputCols |-> indexOutputCols',
                       handleInvalid |-> HandleInvalid]
  /\ pc' = "assembler"
  /\ UNCHANGED <<nb, dtypes, trainDF, testDF, foldOf, rmseOf, numericCols, vecAssembler,
                 estimator, paramGrid, cv, pipeline, cvRun, cvModel, pipelineModel,
                 predDF, report, evaluated, error, indexerFits, evals, cvFits>>

\* 10-6 lines 47-52, 10-7 lines 21-23
DefineAssembler ==
  /\ pc = "assembler"
  /\ numericCols' = NumericCols(dtypes)
  /\ vecAssembler' = [inputCols |-> AssemblerInputs(indexOutputCols, numericCols'),
                      outputCol |-> "features"]
  /\ pc' = "estimator"
  /\ UNCHANGED <<nb, dtypes, trainDF, testDF, foldOf, rmseOf, categoricalCols,
                 indexOutputCols, stringIndexer, estimator, paramGrid, cv, pipeline,
                 cvRun, cvModel, pipelineModel, predDF, report, evaluated, error,
                 indexerFits, evals, cvFits>>

\* pipelineModel.transform(testDF): 10-6 line 166, 10-7 line 157
Transform ==
  /\ pc = "transform"
  /\ LET idx == StringIndexerTransform(testDF, stringIndexer, pipelineModel.labels)
         asm == VectorAssemblerTransform(idx.rows, vecAssembler)
     IN IF idx.failed
        THEN /\ error' = "UnseenLabel"
             /\ pc' = "failed"
             /\ UNCHANGED predDF
        ELSE /\ \E p \in [asm -> Predictions(pipelineModel.regressor)] :
                  predDF' = {r @@ ("prediction" :> p[r]) : r \in asm}
             /\ pc' = "evaluate"
             /\ UNCHANGED error
  /\ UNCHANGED <<nb, dtypes, trainDF, testDF, foldOf, rmseOf, categoricalCols,
                 indexOutputCols, stringIndexer, numericCols, vecAssembler, estimator,
                 paramGrid, cv, pipeline, cvRun, cvModel, pipelineModel, report,
                 evaluated, indexerFits, evals, cvFits>>

\* regressionEvaluator.evaluate(predDF), rmse then r2: 10-6 lines 183-190,
\* 10-7 lines 159-164.  What is scored is the output of pipelineModel.
Evaluate ==
  /\ pc = "evaluate"
  /\ evaluated' = [search |-> pipelineModel.search,
                   pairs |-> {<<r["prediction"], r[LabelCol]>> : r \in predDF}]
  /\ pc' = "done"
  /\ UNCHANGED <<nb, dtypes, trainDF, testDF, foldOf, rmseOf, categoricalCols,
                 indexOutputCols, stringIndexer, numericCols, vecAssembler, estimator,
                 paramGrid, cv, pipeline, cvRun, cvModel, pipelineModel, predDF,
                 report, error, indexerFits, evals, cvFits>>

\* ------------------------------------------------------- cells of 10-6
\* lines 65 and 77-78
DefineTree ==
  /\ nb = "10-6" /\ pc = "estimator"
  /\ estimator' = [kind |-> "tree", labelCol |-> LabelCol, maxBins |-> DefaultMaxBins]
  /\ pipeline' = <<"stringIndexer", "vecAssembler", "dt">>
  /\ pc' = "maxBins"
  /\ UNCHANGED <<nb, dtypes, trainDF, testDF, foldOf, rmseOf, categoricalCols,
                 indexOutputCols, stringIndexer, numericCols, vecAssembler, paramGrid,
                 cv, cvRun, cvModel, pipelineModel, predDF, report, evaluated, error,
                 indexerFits, evals, cvFits>>

\* dt.setMaxBins(b), line 110; the notebook passes 40
SetMaxBins(b) ==
  /\ nb = "10-6" /\ pc = "maxBins"
  /\ estimator' = [estimator EXCEPT !.maxBins = b]
  /\ pc' = "fit119"
  /\ UNCHANGED <<nb, dtypes, trainDF, testDF, foldOf, rmseOf, categoricalCols,
                 indexOutputCols, stringIndexer, numericCols, vecAssembler, paramGrid,
                 cv, pipeline, cvRun, cvModel, pipelineModel, predDF, report,
                 evaluated, error, indexerFits, evals, cvFits>>

\* pipelineModel = pipeline.fit(trainDF), line 119
FitPipeline ==
  /\ nb = "10-6" /\ pc = "fit119"
  /\ LET labels == StringIndexerFit(trainDF, stringIndexer)
     IN /\ indexerFits' = indexerFits \cup
             {[cell |-> "fit119", point |-> 0, fold |-> -1, on |-> trainDF,
               labels |-> labels]}
        /\ IF MaxBinsOk(estimator, labels)
           THEN /\ pipelineModel' =
                     [labels |-> labels,
                      regressor |-> FitRegressor(estimator, None, Prepared(trainDF, labels)),
                      search |-> None]
                /\ pc' = "transform"
                /\ UNCHANGED error
           ELSE /\ error' = "ConfigurationError"
                /\ pc' = "failed"
                /\ UNCHANGED pipelineModel
  /\ UNCHANGED <<nb, dtypes, trainDF, testDF, foldOf, rmseOf, categoricalCols,
                 indexOutputCols, stringIndexer, numericCols, vecAssembler, estimator,
                 paramGrid, cv, pipeline, cvRun, cvModel, predDF, report, evaluated,
                 evals, cvFits>>

\* ------------------------------------------------------- cells of 10-7
\* lines 35-36
DefineForest ==
  /\ nb = "10-7" /\ pc = "estimator"
  /\ estimator' = [kind |-> "forest", labelCol |-> LabelCol, maxBins |-> ForestMaxBins,
                   seed |-> 42]
  /\ pipeline' = <<"stringIndexer", "vecAssembler", "rf">>
  /\ pc' = "grid"
  /\ UNCHANGED <<nb, dtypes, trainDF, testDF, foldOf, rmseOf, categoricalCols,
                 indexOutputCols, stringIndexer, numericCols, vecAssembler, paramGrid,
                 cv, cvRun, cvModel, pipelineModel, predDF, report, evaluated, error,
                 indexerFits, evals, cvFits>>

\* lines 55-58
BuildParamGrid ==
  /\ nb = "10-7" /\ pc = "grid"
  /\ paramGrid' = BuildGrid(MaxDepthValues, NumTreesValues)
  /\ pc' = "cv"
  /\ UNCHANGED <<nb, dtypes, trainDF, testDF, foldOf, rmseOf, categoricalCols,
                 indexOutputCols, stringIndexer, numericCols, vecAssembler, estimator,
                 cv, pipeline, cvRun, cvModel, pipelineModel, predDF, report,
                 evaluated, error, indexerFits, evals, cvFits>>

\* lines 86-94: the whole pipeline is the estimator; parallelism has its default
DefineCV ==
  /\ nb = "10-7" /\ pc = "cv"
  /\ cv' = [estimator |-> "pipeline", evaluator |-> [metricName |-> "rmse"],
            numFolds |-> NumFolds, parallelism |-> DefaultParallelism, seed |-> 42]
  /\ pc' = "fit103"
  /\ UNCHANGED <<nb, dtypes, trainDF, testDF, foldOf, rmseOf, categoricalCols,
                 indexOutputCols, stringIndexer, numericCols, vecAssembler, estimator,
                 paramGrid, pipeline, cvRun, cvModel, pipelineModel, predDF, report,
                 evaluated, error, indexerFits, evals, cvFits>>

\* CrossValidator.fit(dataset) as it starts: no fold done, metrics = [0.0] * numModels
NewRun(cell, dataset, labels) ==
  [cell |-> cell, dataset |-> dataset, labels |-> labels, fold |-> 0, done |-> {},
   metrics |-> [k \in 1..Len(paramGrid) |-> 0]]

\* cvModel = cv.fit(trainDF), line 103
CvFit103 ==
  /\ nb = "10-7" /\ pc = "fit103"
  /\ cvRun' = NewRun("fit103", trainDF, None)
  /\ pc' = "search"
  /\ UNCHANGED <<nb, dtypes, trainDF, testDF, foldOf, rmseOf, categoricalCols,
                 indexOutputCols, stringIndexer, numericCols, vecAssembler, estimator,
                 paramGrid, cv, pipeline, cvModel, pipelineModel, predDF, report,
                 evaluated, error, indexerFits, evals, cvFits>>

\* cvModel = cv.setParallelism(4).fit(trainDF), line 118
CvFit118 ==
  /\ nb = "10-7" /\ pc = "fit118"
  /\ cv' = [cv EXCEPT !.parallelism = NotebookParallelism]
  /\ cvRun' = NewRun("fit118", trainDF, None)
  /\ pc' = "search"
  /\ UNCHANGED <<nb, dtypes, trainDF, testDF, foldOf, rmseOf, categoricalCols,
                 indexOutputCols, stringIndexer, numericCols, vecAssembler, estimator,
                 paramGrid, pipeline, cvModel, pipelineModel, predDF, report,
                 evaluated, error, indexerFits, evals, cvFits>>

\* lines 129-136: now rf alone is the estimator and cv the pipeline's last stage
RedefineCV ==
  /\ nb = "10-7" /\ pc = "cv2"
  /\ cv' = [estimator |-> "rf", evaluator |-> [metricName |-> "rmse"],
            numFolds |-> NumFolds, parallelism |-> NotebookParallelism, seed |-> 42]
  /\ pipeline' = <<"stringIndexer", "vecAssembler", "cv">>
  /\ pc' = "fit138"
  /\ UNCHANGED <<nb, dtypes, trainDF, testDF, foldOf, rmseOf, categoricalCols,
                 indexOutputCols, stringIndexer, numericCols, vecAssembler, estimator,
                 paramGrid, cvRun, cvModel, pipelineModel, predDF, report, evaluated,
                 error, indexerFits, evals, cvFits>>

\* pipelineModel = pipeline.fit(trainDF), line 138: the first two stages are
\* fitted and applied to trainDF, and cv.fit starts on their output
PipelineFit138 ==
  /\ nb = "10-7" /\ pc = "fit138"
  /\ LET labels == StringIndexerFit(trainDF, stringIndexer)
     IN /\ indexerFits' = indexerFits \cup
             {[cell |-> "fit138", point |-> 0, fold |-> -1, on |-> trainDF,
               labels |-> labels]}
        /\ cvRun' = NewRun("fit138", Prepared(trainDF, labels), labels)
  /\ pc' = "search"
  /\ UNCHANGED <<nb, dtypes, trainDF, testDF, foldOf, rmseOf, categoricalCols,
                 indexOutputCols, stringIndexer, numericCols, vecAssembler, estimator,
                 paramGrid, cv, pipeline, cvModel, pipelineModel, predDF, report,
                 evaluated, error, evals, cvFits>>

\* the table a fold evaluation encodes with: the estimator's own StringIndexer
\* stage, fitted on the evaluation's training rows, when the pipeline is the
\* estimator; the table fitted upstream when rf is
EvaluationLabelsRefit(est, train, upstream) ==
  StringIndexerFit(train, stringIndexer)
EvaluationLabels(est, train, upstream) ==
  IF est = "pipeline" THEN StringIndexerFit(train, stringIndexer) ELSE upstream

\* one task of _parallelFitTasks finishes in the running fit: the estimator is
\* fitted on the fold's training rows under grid point j, scored on the fold's
\* validation rows, and the metric collected
CvTaskDone(j) ==
  /\ nb = "10-7" /\ pc = "search"
  /\ cvRun.fold < cv.numFolds
  /\ j \in RunningTasks(Len(paramGrid), cvRun.done, cv.parallelism)
  /\ LET i == cvRun.fold
         train == KFoldTrain(cvRun.dataset, i)
         validation == KFoldValidation(cvRun.dataset, i)
         refit == cv.estimator = "pipeline"
         labels == EvaluationLabels(cv.estimator, train, cvRun.labels)
         trained == IF refit THEN Prepared(train, labels) ELSE train
         scored == IF refit THEN Prepared(validation, labels) ELSE validation
         raised == refit /\ \/ StringIndexerTransform(train, stringIndexer, labels).failed
                            \/ StringIndexerTransform(validation, stringIndexer, labels).failed
         done == cvRun.done \cup {j}
         last == done = 1..Len(paramGrid)
     IN /\ indexerFits' =
             IF refit
             THEN indexerFits \cup {[cell |-> cvRun.cell, point |-> j, fold |-> i,
                                     on |-> train, labels |-> labels]}
             ELSE indexerFits
        /\ IF MaxBinsOk(estimator, labels) /\ ~raised
           THEN /\ evals' = evals \cup
                     {[cell |-> cvRun.cell, point |-> j, fold |-> i,
                       train |-> {Raw(r) : r \in
                                    FitRegressor(estimator, paramGrid[j], trained).trainedOn},
                       validation |-> {Raw(r) : r \in validation},
                       scored |-> {Raw(r) : r \in scored},
                       labels |-> labels]}
                /\ cvRun' = [cvRun EXCEPT
                     !.metrics = CvCollect(@, j, Cardinality(cvRun.done) + 1,
                                           rmseOf[cv.estimator][j][i + 1] \div cv.numFolds),
                     !.done = IF last THEN {} ELSE done,
                     !.fold = IF last THEN i + 1 ELSE i]
                /\ UNCHANGED <<pc, error>>
           ELSE /\ error' = IF raised THEN "UnseenLabel" ELSE "ConfigurationError"
                /\ pc' = "failed"
                /\ UNCHANGED <<evals, cvRun>>
  /\ UNCHANGED <<nb, dtypes, trainDF, testDF, foldOf, rmseOf, categoricalCols,
                 indexOutputCols, stringIndexer, numericCols, vecAssembler, estimator,
                 paramGrid, cv, pipeline, cvModel, pipelineModel, predDF, report,
                 evaluated, cvFits>>

\* the end of CrossValidator.fit: bestIndex, the refit of the estimator on the
\* whole dataset under the best grid point, and the assignment of the result
CvFinish ==
  /\ nb = "10-7" /\ pc = "search"
  /\ cvRun.fold = cv.numFolds
  /\ LET best == BestIndex(cvRun.metrics, cv.evaluator)
         refit == cv.estimator = "pipeline"
         labels == EvaluationLabels(cv.estimator, cvRun.dataset, cvRun.labels)
         whole == IF refit THEN Prepared(cvRun.dataset, labels) ELSE cvRun.dataset
         forest == FitRegressor(estimator, paramGrid[best], whole)
         model == [search |-> cvRun.cell, estimatorParamMaps |-> paramGrid,
                   avgMetrics |-> cvRun.metrics, bestIndex |-> best,
                   bestModel |-> [labels |-> labels, regressor |-> forest]]
     IN /\ indexerFits' =
             IF refit
             THEN indexerFits \cup {[cell |-> cvRun.cell, point |-> best, fold |-> -1,
                                     on |-> cvRun.dataset, labels |-> labels]}
             ELSE indexerFits
        /\ cvFits' = cvFits \cup
             {[cell |-> cvRun.cell, estimator |-> cv.estimator,
               parallelism |-> cv.parallelism, grid |-> paramGrid,
               avgMetrics |-> cvRun.metrics, bestIndex |-> best,
               bestParams |-> forest.params,
               trainedOn |-> {Raw(r) : r \in forest.trainedOn}]}
        /\ IF cvRun.cell = "fit138"
           THEN /\ pipelineModel' = [labels |-> cvRun.labels, regressor |-> forest,
                                     search |-> cvRun.cell]
                /\ pc' = "report"
                /\ UNCHANGED cvModel
           ELSE /\ cvModel' = model
                /\ pc' = IF cvRun.cell = "fit103" THEN "fit118" ELSE "cv2"
                /\ UNCHANGED pipelineModel
  /\ cvRun' = None
  /\ UNCHANGED <<nb, dtypes, trainDF, testDF, foldOf, rmseOf, categoricalCols,
                 indexOutputCols, stringIndexer, numericCols, vecAssembler, estimator,
                 paramGrid, cv, pipeline, predDF, report, evaluated, error, evals>>

\* list(zip(cvModel.getEstimatorParamMaps(), cvModel.avgMetrics)), line 147
Report ==
  /\ nb = "10-7" /\ pc = "report"
  /\ report' = [search |-> cvModel.search,
                rows |-> [k \in 1..Len(cvModel.avgMetrics) |->
                            <<cvModel.estimatorParamMaps[k], cvModel.avgMetrics[k]>>]]
  /\ pc' = "transform"
  /\ UNCHANGED <<nb, dtypes, trainDF, testDF, foldOf, rmseOf, categoricalCols,
                 indexOutputCols, stringIndexer, numericCols, vecAssembler, estimator,
                 paramGrid, cv, pipeline, cvRun, cvModel, pipelineModel, predDF,
                 evaluated, error, indexerFits, evals, cvFits>>

\* ------------------------------------------------------------ inputs
Schema(t) == [k \in 1..NumFields |-> <<Fields[k], t[k]>>]
AllSchemas == {Schema(t) : t \in [1..NumFields -> DataTypes]}
\* the notebooks' dataset has a double label
NotebookSchemas == {s \in AllSchemas : \A k \in 1..NumFields :
                      s[k][1] = LabelCol => s[k][2] = "double"}
DefaultSchema ==
  Schema([k \in 1..NumFields |->
            IF Fields[k] \in {"room", "city"} THEN "string" ELSE "double"])

\* row i with category c in every string column and label y
UniformRow(i, c, y) ==
  [f \in FieldSet |-> IF f = LabelCol THEN y ELSE IF f = "beds" THEN i ELSE c]
\* row i with the value 2 in its own column and the value 1 in the others
DiagonalRow(i, y) ==
  [f \in FieldSet |->
     IF f = LabelCol THEN y
     ELSE IF Fields[IF i < IndexIn(Fields, LabelCol) + 1 THEN i ELSE i + 1] = f
          THEN 2 ELSE 1]

Rows == 1..NumTrainRows
Categories == 1..NumValues
TrainSets(C, Y) == {{UniformRow(i, c[i], y[i]) : i \in Rows} : c \in C, y \in Y}
\* test sets of at most MaxTestRows rows, of distinct categories
TestSets ==
  {{UniformRow(NumTrainRows + c, c, 1) : c \in S} :
     S \in {T \in SUBSET Categories : Cardinality(T) <= MaxTestRows}}
OneTestRow == {UniformRow(NumTrainRows + 1, 1, 1)}
DiagonalTrain == {DiagonalRow(i, 1) : i \in Rows}
DiagonalTest == {DiagonalRow(1, 1)}
\* one representative of every multiset of values over the rows
Ascending == {c \in [Rows -> Categories] : \A i \in 1..(NumTrainRows - 1) : c[i] <= c[i + 1]}
Same == [i \in Rows |-> 1]
Alternating == [i \in Rows |-> (i % NumValues) + 1]

\* every fold holds a row, as it does for a dataset of thousands of rows
FoldAssignments(df) ==
  {f \in [df -> 0..(NumFolds - 1)] : \A i \in 0..(NumFolds - 1) : \E r \in df : f[r] = i}
FixedFolds(df) == CHOOSE f \in FoldAssignments(df) : TRUE

GridSize == Len(MaxDepthValues) * Len(NumTreesValues)
Entries == (1..GridSize) \X (1..NumFolds)
RECURSIVE SetsUpTo(_)
SetsUpTo(n) ==
  IF n = 0 THEN {{}}
  ELSE SetsUpTo(n - 1) \cup {D \cup {e} : D \in SetsUpTo(n - 1), e \in Entries}
\* the evaluator's answers, in units that numFolds divides: the evaluations in
\* D score one unit better than the others when the pipeline is the estimator,
\* and the evaluations mirrored from D do when rf is
Table(D) ==
  [e \in {"pipeline", "rf"} |-> [j \in 1..GridSize |-> [i \in 1..NumFolds |->
     IF <<(IF e = "pipeline" THEN j ELSE GridSize + 1 - j), i>> \in D
     THEN NumFolds ELSE 2 * NumFolds]]]
ImprovedTables == {Table(D) : D \in SetsUpTo(MaxImproved)}
FixedTable == Table({<<3, 1>>})

MaxBinsValues == (1..MaxBinsTried) \cup {NotebookMaxBins}

InitWith(schemas, trains, tests, folds, tables) ==
  /\ nb \in {"10-6", "10-7"}
  /\ pc = "indexer"
  /\ dtypes \in schemas
  /\ trainDF \in trains
  /\ testDF \in tests
  /\ foldOf \in (IF folds /\ nb = "10-7" THEN FoldAssignments(trainDF)
                 ELSE {FixedFolds(trainDF)})
  /\ rmseOf \in (IF nb = "10-7" THEN tables ELSE {FixedTable})
  /\ categoricalCols = None /\ indexOutputCols = None /\ stringIndexer = None
  /\ numericCols = None /\ vecAssembler = None /\ estimator = None
  /\ paramGrid = None /\ cv = None /\ pipeline = None /\ cvRun = None
  /\ cvModel = None /\ pipelineModel = None /\ predDF = None
  /\ report = None /\ evaluated = None
  /\ error = "none"
  /\ indexerFits = {} /\ evals = {} /\ cvFits = {}

\* the run of either notebook over varied categories in train and test
Init ==
  InitWith({DefaultSchema}, TrainSets(Ascending, {Same}), TestSets, FALSE, {FixedTable})
\* over varied schemas
InitSchemas ==
  InitWith(NotebookSchemas, {DiagonalTrain}, {DiagonalTest}, FALSE, {FixedTable})
\* over every typing of the columns, the label's included
InitAllSchemas ==
  InitWith(AllSchemas, {DiagonalTrain}, {DiagonalTest}, FALSE, {FixedTable})
\* over varied labels
InitLabels ==
  InitWith({DefaultSchema}, TrainSets({Alternating}, Ascending), {OneTestRow}, FALSE,
           {FixedTable})
\* over varied evaluator answers
InitTables ==
  InitWith({DefaultSchema}, TrainSets({Alternating}, {Same}), {OneTestRow}, FALSE,
           ImprovedTables)
\* over varied fold assignments
InitFolds ==
  InitWith({DefaultSchema}, TrainSets({Same, Alternating}, {Same}), {OneTestRow}, TRUE,
           {FixedTable})

Next ==
  \/ DefineIndexer
  \/ DefineAssembler
  \/ DefineTree
  \/ \E b \in MaxBinsValues : SetMaxBins(b)
  \/ FitPipeline
  \/ DefineForest
  \/ BuildParamGrid
  \/ DefineCV
  \/ CvFit103
  \/ CvFit118
  \/ RedefineCV
  \/ PipelineFit138
  \/ \E j \in 1..GridSize : CvTaskDone(j)
  \/ CvFinish
  \/ Report
  \/ Transform
  \/ Evaluate

NextColumns == DefineIndexer \/ DefineAssembler

Spec == Init /\ [][Next]_vars
SpecSchemas == InitSchemas /\ [][Next]_vars
SpecColumns == InitAllSchemas /\ [][NextColumns]_vars
SpecLabels == InitLabels /\ [][Next]_vars
SpecTables == InitTables /\ [][Next]_vars
SpecFolds == InitFolds /\ [][Next]_vars

\* ------------------------------------------------------------ claims
ColumnsDefined == pc \notin {"indexer", "assembler"}
Fitted == pc \in {"report", "transform", "evaluate", "done"}
Transformed == pc \in {"evaluate", "done"}
DistinctCount(c) == Cardinality({r[c] : r \in trainDF})
StringFields == SelectSeq(dtypes, LAMBDA p : p[2] = "string")
DoubleFeatureFields == SelectSeq(dtypes, LAMBDA p : p[2] = "double" /\ p[1] # LabelCol)

\* every assembled row the state holds
AssembledRows ==
  (IF Fitted THEN pipelineModel.regressor.trainedOn ELSE {})
  \cup (IF Transformed THEN predDF ELSE {})
  \cup (IF cvFits # {} THEN cvModel.bestModel.regressor.trainedOn ELSE {})
  \cup (IF pc = "search" /\ cvRun.cell = "fit138" THEN cvRun.dataset ELSE {})

\* C6: for every schema, the label's own type included, the categorical and
\* the numeric feature lists are disjoint and the label column price is in
\* neither of them.
C6_LabelInNeitherList ==
  /\ pc # "indexer" => LabelCol \notin Range(categoricalCols)
  /\ ColumnsDefined =>
       /\ LabelCol \notin Range(numericCols)
       /\ Range(categoricalCols) \cap Range(numericCols) = {}

\* C7: every assembled row (training, test, prediction) has a feature vector
\* of length #categorical + #numeric: first the codes of the string columns in
\* schema order, then the values of the double feature columns in schema order.
C7_FeatureVectorOrder ==
  \A r \in AssembledRows :
    LET nc == Len(StringFields)
        nn == Len(DoubleFeatureFields)
    IN /\ Len(r["features"]) = nc + nn
       /\ \A k \in 1..nc : r["features"][k] = r[StringFields[k][1] \o "Index"]
       /\ \A k \in 1..nn : r["features"][nc + k] = r[DoubleFeatureFields[k][1]]

\* a finished run whose schema puts a double feature before a string column
\* and has two string columns
C7_Witness ==
  /\ pc = "done" /\ predDF # {}
  /\ Len(StringFields) >= 2
  /\ \E a, b \in 1..NumFields : a < b /\ dtypes[a][2] = "double"
                                /\ dtypes[a][1] # LabelCol /\ dtypes[b][2] = "string"
  /\ \E r \in predDF : \E k \in 1..Len(r["features"]) : r["features"][k] = 2

SeenInTrain(r) == \A c \in Range(categoricalCols) : \E t \in trainDF : t[c] = r[c]

MaxBinsTooSmall ==
  \E c \in Range(categoricalCols) : estimator.maxBins < DistinctCount(c)

\* C5: fitting a tree model fails with a configuration error when max-bins is
\* below the number of distinct categories of some categorical column, and
\* succeeds when it is at least that number for every categorical column.
C5_MaxBinsDecidesFit ==
  /\ error = "ConfigurationError" => MaxBinsTooSmall
  /\ (nb = "10-6" /\ pc \in {"transform", "evaluate", "done", "failed"}) =>
       IF MaxBinsTooSmall
       THEN pc = "failed" /\ error = "ConfigurationError"
       ELSE pc # "failed" /\ error = "none"
  /\ (nb = "10-7" /\ cvFits # {}) => ~MaxBinsTooSmall

\* maxBins one below the number of categories: the fit has failed
C5_Witness ==
  /\ nb = "10-6" /\ pc = "failed" /\ error = "ConfigurationError"
  /\ \E c \in Range(categoricalCols) : estimator.maxBins + 1 = DistinctCount(c)

InRange(p, df) ==
  /\ p[2] > 0
  /\ \A y \in Labels(df) : (\A z \in Labels(df) : y <= z) => y * p[2] <= p[1]
  /\ \A y \in Labels(df) : (\A z \in Labels(df) : z <= y) => p[1] <= y * p[2]

TrainedModels ==
  (IF Fitted THEN {pipelineModel.regressor} ELSE {})
  \cup (IF cvFits # {} THEN {cvModel.bestModel.regressor} ELSE {})

\* C9: whatever a trained tree or forest answers, for any input, lies between
\* the least and the greatest label of the rows it was trained on.
C9_PredictionWithinLabelRange ==
  /\ \A m \in TrainedModels : \A p \in Predictions(m) : InRange(p, m.trainedOn)
  /\ Transformed => \A r \in predDF : InRange(r["prediction"], trainDF)

\* a forest trained on differing labels answered strictly between them
C9_Witness ==
  /\ nb = "10-7" /\ pc = "done"
  /\ \E r \in predDF : \E y, z \in Labels(trainDF) :
       y * r["prediction"][2] < r["prediction"][1] /\ r["prediction"][1] < z * r["prediction"][2]

SameEstimatorFits == {<<a, b>> \in cvFits \X cvFits : a.estimator = b.estimator}

\* C1: searches over the same rows, folds and grid give the same average
\* scores and the same selected grid point whatever the parallelism and
\* whatever the order in which the concurrent evaluations finish.
C1_ParallelismInvariant ==
  \A ab \in SameEstimatorFits :
    /\ ab[1].avgMetrics = ab[2].avgMetrics
    /\ ab[1].bestIndex = ab[2].bestIndex
    /\ ab[1].bestParams = ab[2].bestParams

\* the searches of degree 1 and of degree 4 have both finished, over scores
\* that differ between grid points
C1_Witness ==
  \E ab \in SameEstimatorFits :
    /\ ab[1].parallelism = DefaultParallelism
    /\ ab[2].parallelism = NotebookParallelism
    /\ \E j, k \in 1..GridSize : ab[1].avgMetrics[j] # ab[1].avgMetrics[k]

CrossProduct ==
  {[maxDepth |-> d, numTrees |-> t] : d \in Range(MaxDepthValues), t \in Range(NumTreesValues)}

\* C2: the search evaluates every point of the cross product of the candidate
\* lists (6 points), averages each point's fold scores, selects a point of
\* least average RMSE, and refits the final model with it on the whole
\* training set.
C2_MinimalAverageSelected ==
  \A f \in cvFits :
    /\ Len(f.grid) = 6
    /\ Range(f.grid) = CrossProduct /\ Cardinality(CrossProduct) = 6
    /\ \A j \in 1..Len(f.grid) : \A i \in 0..(NumFolds - 1) :
         \E e \in evals : e.cell = f.cell /\ e.point = j /\ e.fold = i
    /\ \A j \in 1..Len(f.grid) :
         NumFolds * f.avgMetrics[j] =
           SumOver(1..NumFolds, [i \in 1..NumFolds |-> rmseOf[f.estimator][j][i]])
    /\ \A j \in 1..Len(f.grid) : f.avgMetrics[f.bestIndex] <= f.avgMetrics[j]
    /\ f.bestParams = f.grid[f.bestIndex]
    /\ f.trainedOn = trainDF

\* a search has finished whose best point is not the first of the grid
C2_Witness ==
  \E f \in cvFits : f.bestIndex > 1 /\ f.avgMetrics[f.bestIndex] < f.avgMetrics[1]

EvalsOf(cell, j, i) == {e \in evals : e.cell = cell /\ e.point = j /\ e.fold = i}

\* C3: in every finished search the folds are pairwise disjoint and cover the
\* training rows; for every grid point each fold is the validation set of
\* exactly one evaluation, whose training rows are exactly the rows of the
\* other folds, so that no row is both trained on and scored.
C3_FoldsPartitionTrainingRows ==
  \A f \in cvFits : \A j \in 1..Len(f.grid) :
    /\ \A i \in 0..(NumFolds - 1) :
         /\ Cardinality(EvalsOf(f.cell, j, i)) = 1
         /\ \A e \in EvalsOf(f.cell, j, i) :
              /\ e.validation # {}
              /\ e.train = trainDF \ e.validation
              /\ e.scored \subseteq e.validation
              /\ e.train \cap e.scored = {}
    /\ \A i, k \in 0..(NumFolds - 1) :
         \A e \in EvalsOf(f.cell, j, i) : \A d \in EvalsOf(f.cell, j, k) :
           i # k => e.validation \cap d.validation = {}
    /\ UNION {e.validation : e \in {d \in evals : d.cell = f.cell /\ d.point = j}} = trainDF

\* a search has finished all of its grid-point x fold evaluations
C3_Witness ==
  /\ cvFits # {}
  /\ \E f \in cvFits :
       Cardinality({e \in evals : e.cell = f.cell}) = GridSize * NumFolds

FitsOf(cell) == {f \in indexerFits : f.cell = cell}

\* C8 as stated: in every run the encoding table is built exactly once, from
\* the full training set, and that one table is applied everywhere.
C8_TableBuiltOnce ==
  /\ Cardinality(indexerFits) <= 1
  /\ \A f \in indexerFits : f.on = trainDF
  /\ \A e \in evals : \A f \in indexerFits : e.labels = f.labels

\* C8, amended: a fit of the pipeline whose stages are the indexer, the
\* assembler and the model or the search over rf (10-6 line 119, 10-7 line
\* 138) builds the table exactly once, from the full training set, and applies
\* that table to every fold evaluation and to the test rows; a search whose
\* estimator is the whole pipeline (10-7 lines 103 and 118) builds a table for
\* every grid-point x fold evaluation from that evaluation's training folds
\* only, and one more from the full training set for the final refit.
C8_TableBuiltOncePerPipelineFit ==
  /\ \A c \in {"fit119", "fit138"} :
       /\ Cardinality(FitsOf(c)) <= 1
       /\ \A f \in FitsOf(c) :
            /\ f.on = trainDF
            /\ f.labels = StringIndexerFit(trainDF, stringIndexer)
            /\ \A e \in evals : e.cell = c => e.labels = f.labels
            /\ (Fitted /\ (nb = "10-7" => pipelineModel.search = c))
                 => pipelineModel.labels = f.labels
  /\ Fitted => \E f \in FitsOf("fit119") \cup FitsOf("fit138") :
                 pipelineModel.labels = f.labels
  /\ \A c \in {"fit103", "fit118"} :
       /\ \A f \in FitsOf(c) :
            /\ f.fold >= 0 => f.on = trainDF \ {r \in trainDF : foldOf[r] = f.fold}
            /\ f.fold < 0 => f.on = trainDF
            /\ f.labels = StringIndexerFit(f.on, stringIndexer)
       /\ \A e \in evals : e.cell = c =>
            \E f \in FitsOf(c) :
              f.point = e.point /\ f.fold = e.fold /\ f.on = e.train /\ f.labels = e.labels
       /\ \A g \in cvFits : g.cell = c =>
            Cardinality(FitsOf(c)) = GridSize * NumFolds + 1

\* the notebook has run to its end, and a table built inside a search over
\* the pipeline differs from the table the final model encodes the test rows with
C8_Witness ==
  /\ nb = "10-7" /\ pc = "done"
  /\ \E e \in evals : e.cell = "fit138"
  /\ \E f \in FitsOf("fit103") : f.fold >= 0 /\ f.labels # pipelineModel.labels

\* C10: at the end of 10-7 the search whose grid points and average metrics
\* were reported is the search whose best model made the scored predictions.
C10_ReportFromEvaluatedSearch ==
  (nb = "10-7" /\ pc = "done") => report.search = evaluated.search

====
